---- MODULE Spec2Model ----
(***************************************************************************)
(* kubernetes-essential-containers: the pod controller.                    *)
(*                                                                         *)
(* Two variants of one controller share the event filter and differ in     *)
(* the remedial action of Reconcile:                                       *)
(*   internal/controller/pod_controller.go   deletes the pod               *)
(*   unnamed/part_001                        injects an ephemeral          *)
(*                                           container running kill -INT 1 *)
(* The variant is the process-wide constant "strategy" of a behaviour.     *)
(*                                                                         *)
(* The platform (API server, watch stream, work queue) is the environment: *)
(* every change of the stored pod is delivered to the event filter as one  *)
(* notification, the filter's verdict enqueues the pod's key, and the work *)
(* queue hands the key to Reconcile, one invocation at a time per key.     *)
(***************************************************************************)
EXTENDS Integers, Sequences, FiniteSets, TLC

VARIABLES
    strategy,   \* "Delete" or "InjectKill": which Reconcile is deployed
    live,       \* the pod as stored by the platform
    ev,         \* the notification most recently handed to the event filter
    passed,     \* the event filter's verdict on ev
    fired,      \* the filter has passed an event since "main" was last seen Running
    queue,      \* the pod's key is in the work queue
    pc,         \* position of the Reconcile invocation: "idle", "got", "built"
    pod,        \* Reconcile's local pod, filled by r.Get
    copied,     \* injectEphemeralContainer's deep copy with the helper appended
    patch,      \* injectEphemeralContainer's strategic merge patch
    last,       \* how the most recent Reconcile invocation returned
    faults,     \* number of failures the platform/runtime has produced so far
    okWrites,   \* remedial requests that succeeded since the pod was created (counted to 2)
    requests,   \* write requests (delete, patch) issued by the current or most recent
                \* Reconcile invocation (counted to 2)
    triggered   \* some Update notification has passed the filter

vars ==
    <<strategy, live, ev, passed, fired, queue, pc, pod, copied, patch, last, faults, okWrites,
      requests, triggered>>

(***************************************************************************)
(* Bounds                                                                  *)
(***************************************************************************)
\* failures (platform errors, marshal/diff errors) one behaviour may contain
MaxFaults == 1

(***************************************************************************)
(* Data                                                                    *)
(***************************************************************************)
Nil == "<nil>"

\* corev1.ContainerState: three pointers, nil or a struct carrying a Reason
EmptyState == [Running |-> FALSE, Waiting |-> Nil, Terminated |-> Nil]
StRunning == [Running |-> TRUE, Waiting |-> Nil, Terminated |-> Nil]
StWaiting(reason) == [Running |-> FALSE, Waiting |-> reason, Terminated |-> Nil]
StTerminated(reason) == [Running |-> FALSE, Waiting |-> Nil, Terminated |-> reason]

WaitingReasons == {"ContainerCreating", "CrashLoopBackOff"}
TerminatedReasons == {"Completed", "Error", "OOMKilled"}

ContainerStates ==
    {EmptyState, StRunning}
        \cup {StWaiting(r) : r \in WaitingReasons}
        \cup {StTerminated(r) : r \in TerminatedReasons}

\* the essential container name the filter is hard-wired to
EssentialName == "main"
SidecarName == "pool"
\* the ephemeral container injectEphemeralContainer builds
HelperName == "essential-container-sidecar"
DebuggerName == "debugger"

ContainerStatus(n, s) == [name |-> n, state |-> s]

ec ==
    [name |-> HelperName, image |-> "busybox", command |-> <<"/bin/sh">>,
     args |-> <<"-c", "kill -INT 1">>, capability |-> "SYS_PTRACE"]

\* an ephemeral container somebody else attached (kubectl debug)
Debugger ==
    [name |-> DebuggerName, image |-> "busybox", command |-> <<"sh">>,
     args |-> <<>>, capability |-> Nil]

\* a pod: Status.ContainerStatuses and Spec.EphemeralContainers
Pod(statuses, ecs) == [statuses |-> statuses, ecs |-> ecs, present |-> TRUE]
NoPod == [statuses |-> <<>>, ecs |-> <<>>, present |-> FALSE]

\* status lists of the detector's specification: container names are unique
\* within a pod; "main" in every state, absent, first or last; the sidecar
\* running or completed
SidecarStates == {StRunning, StTerminated("Completed")}
AllStatuses ==
    {<<>>}
        \cup {<<ContainerStatus(EssentialName, s)>> : s \in ContainerStates}
        \cup {<<ContainerStatus(SidecarName, t)>> : t \in SidecarStates}
        \cup {<<ContainerStatus(EssentialName, s), ContainerStatus(SidecarName, t)>> :
                s \in ContainerStates, t \in SidecarStates}
        \cup {<<ContainerStatus(SidecarName, t), ContainerStatus(EssentialName, s)>> :
                s \in ContainerStates, t \in SidecarStates}

\* status lists of the controller's specification: the sidecar keeps running
MainStates == {StRunning, StWaiting("ContainerCreating"), StTerminated("Completed"), StTerminated("Error")}
LoopStatuses ==
    {<<ContainerStatus(SidecarName, StRunning)>>}
        \cup {<<ContainerStatus(SidecarName, StRunning), ContainerStatus(EssentialName, s)>> :
                s \in MainStates}

Min(S) == CHOOSE x \in S : \A y \in S : x <= y

(***************************************************************************)
(* Strategic merge patch of Spec.EphemeralContainers                       *)
(* (patchStrategy merge, patchMergeKey name)                               *)
(***************************************************************************)
\* a patch document: the list elements to merge in, the names to delete and
\* the $setElementOrder directive; all empty is the empty patch {}
NoPatch == [items |-> <<>>, deletes |-> <<>>, order |-> <<>>]

RECURSIVE Names(_)
Names(list) == IF list = <<>> THEN <<>> ELSE <<Head(list).name>> \o Names(Tail(list))
HasName(list, n) == \E i \in 1..Len(list) : list[i].name = n

\* position of name n in the list of names, 0 when it is not there
Index(names, n) ==
    IF \E i \in 1..Len(names) : names[i] = n
    THEN Min({i \in 1..Len(names) : names[i] = n})
    ELSE 0

\* the ephemeral container names in use, in string order
NameOrder == <<DebuggerName, HelperName>>
NameRank(n) == Index(NameOrder, n)

\* a stable sort of list by the position of each element's name in names
RECURSIVE InsertBy(_, _, _)
InsertBy(sorted, e, names) ==
    IF sorted = <<>> THEN <<e>>
    ELSE IF Index(names, e.name) < Index(names, Head(sorted).name) THEN <<e>> \o sorted
    ELSE <<Head(sorted)>> \o InsertBy(Tail(sorted), e, names)

RECURSIVE SortBy(_, _)
SortBy(list, names) ==
    IF list = <<>> THEN <<>>
    ELSE InsertBy(SortBy(SubSeq(list, 1, Len(list) - 1), names), list[Len(list)], names)

\* sortMergeListsByNameArray: the lists are walked in merge-key order
SortByName(list) == SortBy(list, NameOrder)

\* diffListsOfMaps: two sorted lists walked together; equal keys are compared,
\* a key only in modified is added to the patch, a key only in original
\* becomes a delete directive
RECURSIVE diffListsOfMaps(_, _)
diffListsOfMaps(original, modified) ==
    IF original = <<>> /\ modified = <<>> THEN [items |-> <<>>, deletes |-> <<>>]
    ELSE IF original # <<>> /\ modified # <<>> /\ Head(original).name = Head(modified).name
    THEN LET rest == diffListsOfMaps(Tail(original), Tail(modified))
         IN  IF Head(original) = Head(modified) THEN rest
             ELSE [rest EXCEPT !.items = <<Head(modified)>> \o @]
    ELSE IF original = <<>>
            \/ (modified # <<>> /\ NameRank(Head(modified).name) < NameRank(Head(original).name))
    THEN LET rest == diffListsOfMaps(original, Tail(modified))
         IN  [rest EXCEPT !.items = <<Head(modified)>> \o @]
    ELSE LET rest == diffListsOfMaps(Tail(original), modified)
         IN  [rest EXCEPT !.deletes = <<Head(original).name>> \o @]

\* json.Marshal: the document of a pod, or a failure
Marshal(p, fails) == [ok |-> ~fails, doc |-> IF fails THEN NoPod ELSE p]

\* the two-way merge patch that turns document original into modified: the
\* documents differ at most in spec.ephemeralContainers; a document of no
\* bytes (a failed Marshal) is read as the empty object
TwoWayMergePatch(original, modified, fails) ==
    IF fails THEN [err |-> TRUE, patch |-> NoPatch]
    ELSE LET d == diffListsOfMaps(SortByName(original.doc.ecs), SortByName(modified.doc.ecs))
         IN  [err |-> FALSE,
              patch |-> IF d.items = <<>> /\ d.deletes = <<>> THEN NoPatch
                        ELSE [items |-> d.items, deletes |-> d.deletes,
                              order |-> Names(modified.doc.ecs)]]

\* the documents passed in the wrong order
CreateTwoWayMergePatch_Swapped(podJS, debugJS, fails) == TwoWayMergePatch(debugJS, podJS, fails)

\* strategicpatch.CreateTwoWayMergePatch(podJS, debugJS, pod)
CreateTwoWayMergePatch(podJS, debugJS, fails) == TwoWayMergePatch(podJS, debugJS, fails)

RemoveNamed(list, names) == SelectSeq(list, LAMBDA e : \A i \in 1..Len(names) : names[i] # e.name)

\* mergeSlice, one patch element: merged into the first element of the same
\* name (the patch element's fields win), appended when there is none
MergeByName(list, e) ==
    IF HasName(list, e.name)
    THEN LET k == Min({i \in 1..Len(list) : list[i].name = e.name})
         IN  [list EXCEPT ![k] = e]
    ELSE Append(list, e)

RECURSIVE MergeAll(_, _)
MergeAll(list, items) ==
    IF items = <<>> THEN list
    ELSE MergeAll(MergeByName(list, Head(items)), Tail(items))

\* mergeSortedSlice: the server-only elements (left) and the elements the
\* patch names (right) interleaved; a left element goes first only when both
\* heads are in the stored order and it is the earlier one
RECURSIVE mergeSortedSlice(_, _, _)
mergeSortedSlice(left, right, serverOrder) ==
    IF left = <<>> THEN right
    ELSE IF right = <<>> THEN left
    ELSE LET li == Index(serverOrder, Head(left).name)
             ri == Index(serverOrder, Head(right).name)
         IN  IF li > 0 /\ ri > 0 /\ li < ri
             THEN <<Head(left)>> \o mergeSortedSlice(Tail(left), right, serverOrder)
             ELSE <<Head(right)>> \o mergeSortedSlice(left, Tail(right), serverOrder)

\* $setElementOrder: the elements the directive names take its order, the
\* others keep the stored order
normalizeElementOrder(merged, patchOrder, serverOrder) ==
    LET named == SelectSeq(merged, LAMBDA e : Index(patchOrder, e.name) > 0)
        serverOnly == SelectSeq(merged, LAMBDA e : Index(patchOrder, e.name) = 0)
    IN  mergeSortedSlice(SortBy(serverOnly, serverOrder), SortBy(named, patchOrder), serverOrder)

\* a server that appends the patch elements without looking at the merge key
ApplyPatch_Append(p, list) == RemoveNamed(list, p.deletes) \o p.items

\* the API server applying a strategic merge patch to the stored list
ApplyPatch(p, list) ==
    IF p = NoPatch THEN list
    ELSE normalizeElementOrder(MergeAll(RemoveNamed(list, p.deletes), p.items), p.order, Names(list))

(***************************************************************************)
(* The event filter                                                        *)
(***************************************************************************)
\* the first status whose Name equals containerName, else the zero state
\* the name is not compared: the first status record is taken
getContainerStatus_First(p, containerName) ==
    IF p.statuses = <<>> THEN EmptyState ELSE p.statuses[1].state

getContainerStatus(p, containerName) ==
    LET hits == {i \in 1..Len(p.statuses) : p.statuses[i].name = containerName}
    IN  IF hits = {} THEN EmptyState ELSE p.statuses[Min(hits)].state

getState(state) ==
    IF state.Running THEN "Running"
    ELSE IF state.Waiting # Nil THEN "Waiting"
    ELSE IF state.Terminated # Nil THEN "Terminated"
    ELSE "unknown"

getStateReason(state) ==
    IF state.Running THEN ""
    ELSE IF state.Waiting # Nil THEN state.Waiting
    ELSE IF state.Terminated # Nil THEN state.Terminated
    ELSE ""

\* plausible slips of UpdateFunc
UpdateFunc_AnyReason(e) ==
    getState(getContainerStatus(e.old, EssentialName)) = "Running"
        /\ getState(getContainerStatus(e.new, EssentialName)) = "Terminated"

UpdateFunc_AnyOld(e) ==
    getState(getContainerStatus(e.new, EssentialName)) = "Terminated"
        /\ getStateReason(getContainerStatus(e.new, EssentialName)) = "Completed"

UpdateFunc(e) ==
    LET oldStatus == getState(getContainerStatus(e.old, EssentialName))
        newState == getContainerStatus(e.new, EssentialName)
        newStatus == getState(newState)
        statusReason == getStateReason(newState)
    IN  (oldStatus = "Running" /\ newStatus = "Terminated") /\ statusReason = "Completed"

CreateFunc_Evaluates(ce) == UpdateFunc([ce EXCEPT !.old = Pod(<<ContainerStatus(EssentialName, StRunning)>>, <<>>)])

CreateFunc(ce) == FALSE

DeleteFunc(de) == FALSE

\* no event filter is installed: every notification enqueues the key
Filter_None(e) == TRUE

\* predicate.Funcs: the callback of the event's kind decides
Filter(e) ==
    CASE e.kind = "Update" -> UpdateFunc(e)
      [] e.kind = "Create" -> CreateFunc(e)
      [] e.kind = "Delete" -> DeleteFunc(e)
      [] OTHER -> FALSE

Event(kind, old, new) == [old |-> old, new |-> new, kind |-> kind]
NoEvent == Event("None", NoPod, NoPod)

\* the watch hands e to the filter; a passing event enqueues the key.
\* q is the queue as the rest of the step leaves it.
Notify(e, q) ==
    /\ ev' = e
    /\ passed' = Filter(e)
    /\ queue' = (q \/ Filter(e))
    /\ triggered' = (triggered \/ (e.kind = "Update" /\ Filter(e)))
    /\ fired' = IF Filter(e) THEN TRUE
                ELSE IF e.kind \in {"Update", "Create"} /\ getState(getContainerStatus(e.new, EssentialName)) = "Running"
                     THEN FALSE
                     ELSE fired

loopVars == <<pc, pod, copied, patch, last, faults, requests>>

Bump(n) == IF n < 2 THEN n + 1 ELSE 2

\* the platform changed the pod's status or ephemeral containers
WatchUpdate(new) ==
    /\ live.present
    /\ new.present
    /\ live' = new
    /\ Notify(Event("Update", live, new), queue)
    /\ UNCHANGED <<strategy, loopVars, okWrites>>

\* the pod appears
WatchCreate(new) ==
    /\ ~live.present
    /\ new.present
    /\ live' = new
    /\ Notify(Event("Create", NoPod, new), queue)
    /\ okWrites' = 0
    /\ UNCHANGED <<strategy, loopVars>>

\* the pod is removed by somebody else
WatchDelete ==
    /\ live.present
    /\ live' = NoPod
    /\ Notify(Event("Delete", NoPod, live), queue)
    /\ UNCHANGED <<strategy, loopVars, okWrites>>

(***************************************************************************)
(* The detector alone: every snapshot sequence of one pod                  *)
(***************************************************************************)
IdleLoop ==
    /\ pc = "idle"
    /\ pod = NoPod
    /\ copied = NoPod
    /\ patch = NoPatch
    /\ last = [result |-> "none", step |-> "none", cause |-> "none", requeued |-> FALSE]
    /\ faults = 0
    /\ okWrites = 0
    /\ requests = 0

InitDetect ==
    /\ strategy \in {"Delete", "InjectKill"}
    /\ live \in {Pod(s, <<>>) : s \in AllStatuses}
    /\ ev = NoEvent
    /\ passed = FALSE
    /\ fired = FALSE
    /\ triggered = FALSE
    /\ queue = FALSE
    /\ IdleLoop

DetectUpdate == \E s \in AllStatuses : WatchUpdate(Pod(s, live.ecs))
DetectCreate == \E s \in AllStatuses : WatchCreate(Pod(s, <<>>))
DetectDelete == WatchDelete

NextDetect == DetectUpdate \/ DetectCreate \/ DetectDelete

SpecDetect == InitDetect /\ [][NextDetect]_vars

(***************************************************************************)
(* Reconcile                                                               *)
(***************************************************************************)
\* errors a client call can return besides NotFound
GetErrors == {"Unavailable", "Canceled", "Forbidden"}
WriteErrors == {"Conflict", "Unavailable", "Canceled", "Forbidden"}

\* a controller that drops failed requests
Requeue_Never(result) == FALSE

\* the controller re-adds the key (rate limited) when Reconcile returns an error
Requeue(result) == result = "err"

\* a failed write is tried again inside the invocation instead of returned
Return_RetriesInline(result, step, cause) ==
    /\ last' = [result |-> result, step |-> step, cause |-> cause, requeued |-> Requeue(result)]
    /\ IF result = "err" /\ step \in {"Delete", "Patch"}
       THEN UNCHANGED <<pc, pod, copied, patch>>
       ELSE /\ pc' = "idle"
            /\ pod' = NoPod
            /\ copied' = NoPod
            /\ patch' = NoPatch

\* Reconcile returns: result "ok" is (ctrl.Result{}, nil), "err" is
\* (ctrl.Result{}, err); step and cause say where the error came from
Return(result, step, cause) ==
    /\ last' = [result |-> result, step |-> step, cause |-> cause, requeued |-> Requeue(result)]
    /\ pc' = "idle"
    /\ pod' = NoPod
    /\ copied' = NoPod
    /\ patch' = NoPatch

Fault == faults < MaxFaults /\ faults' = faults + 1

\* the work queue hands the key to Reconcile, which reads the pod
ReconcileGet ==
    /\ pc = "idle"
    /\ queue
    /\ \/ \E err \in GetErrors :
            /\ Fault
            /\ Return("err", "Get", err)
            /\ queue' = Requeue("err")
       \/ /\ ~live.present
          /\ Return("ok", "Get", "NotFound")
          /\ queue' = Requeue("ok")
          /\ UNCHANGED faults
       \/ /\ live.present
          /\ pod' = live
          /\ pc' = "got"
          /\ queue' = FALSE
          /\ UNCHANGED <<copied, patch, last, faults>>
    /\ requests' = 0
    /\ UNCHANGED <<strategy, live, ev, passed, fired, triggered, okWrites>>

\* internal/controller/pod_controller.go: r.Delete(ctx, pod)
ReconcileDelete ==
    /\ pc = "got"
    /\ strategy = "Delete"
    /\ \/ \E err \in WriteErrors :
            /\ Fault
            /\ Return("err", "Delete", err)
            /\ queue' = (queue \/ Requeue("err"))
            /\ UNCHANGED <<live, ev, passed, fired, triggered, okWrites>>
       \/ /\ ~live.present
          /\ Return("err", "Delete", "NotFound")
          /\ queue' = (queue \/ Requeue("err"))
          /\ UNCHANGED <<live, ev, passed, fired, triggered, faults, okWrites>>
       \/ /\ live.present
          /\ live' = NoPod
          /\ Notify(Event("Delete", NoPod, live), queue \/ Requeue("ok"))
          /\ Return("ok", "Delete", "none")
          /\ okWrites' = Bump(okWrites)
          /\ UNCHANGED faults
    /\ requests' = Bump(requests)
    /\ UNCHANGED strategy

\* copied.Spec.EphemeralContainers = append(copied.Spec.EphemeralContainers, *ec)
appendEC_First(p) == [p EXCEPT !.ecs = <<ec>> \o @]

appendEC(p) == [p EXCEPT !.ecs = Append(@, ec)]

\* the copy shares the original's list: the append lands in the original too
Original_Aliased(p) == appendEC(p)

\* the pod handed to injectEphemeralContainer once the copy has been made
\* and extended: DeepCopy shares nothing with it
Original(p) == p

\* the error of json.Marshal(copied) is dropped like the one of json.Marshal(pod)
BuildError_MarshalDropped(debugJS, r) == IF r.err THEN "Diff" ELSE "none"

\* the check that makes injectEphemeralContainer return before the patch is
\* sent: the error of json.Marshal(copied), then the error of the diff
BuildError(debugJS, r) ==
    IF ~debugJS.ok THEN "Marshal"
    ELSE IF r.err THEN "Diff"
    ELSE "none"

\* injectEphemeralContainer up to the patch: marshal, copy, append, marshal, diff.
\* json.Marshal fails on the pod's content, which the deep copy shares: the
\* first call's error is dropped, the second call's is returned.
InjectBuild ==
    /\ pc = "got"
    /\ strategy = "InjectKill"
    /\ \E f \in {"none", "Marshal", "Diff"} :
          /\ IF f = "none" THEN UNCHANGED faults ELSE Fault
          /\ LET podJS == Marshal(pod, f = "Marshal")
                 cp == appendEC(pod)
                 debugJS == Marshal(cp, f = "Marshal")
                 r == CreateTwoWayMergePatch(podJS, debugJS, f = "Diff")
                 err == BuildError(debugJS, r)
             IN  IF err # "none"
                 THEN /\ Return("err", err, f)
                      /\ queue' = (queue \/ Requeue("err"))
                 ELSE /\ pod' = Original(pod)
                      /\ copied' = cp
                      /\ patch' = r.patch
                      /\ pc' = "built"
                      /\ UNCHANGED <<last, queue>>
    /\ UNCHANGED <<strategy, live, ev, passed, fired, triggered, okWrites, requests>>

\* src.Patch(ctx, pod, client.RawPatch(types.StrategicMergePatchType, patch))
\* and Reconcile's return
InjectSubmit ==
    /\ pc = "built"
    /\ \/ \E err \in WriteErrors :
            /\ Fault
            /\ Return("err", "Patch", err)
            /\ queue' = (queue \/ Requeue("err"))
            /\ UNCHANGED <<live, ev, passed, fired, triggered, okWrites>>
       \/ /\ ~live.present
          /\ Return("err", "Patch", "NotFound")
          /\ queue' = (queue \/ Requeue("err"))
          /\ UNCHANGED <<live, ev, passed, fired, triggered, faults, okWrites>>
       \/ /\ live.present
          /\ LET stored == [live EXCEPT !.ecs = ApplyPatch(patch, @)]
             IN  /\ live' = stored
                 /\ IF stored # live
                    THEN Notify(Event("Update", live, stored), queue \/ Requeue("ok"))
                    ELSE /\ queue' = (queue \/ Requeue("ok"))
                         /\ UNCHANGED <<ev, passed, fired, triggered>>
          /\ Return("ok", "Patch", "none")
          /\ okWrites' = Bump(okWrites)
          /\ UNCHANGED faults
    /\ requests' = Bump(requests)
    /\ UNCHANGED strategy

(***************************************************************************)
(* The platform around the controller                                      *)
(***************************************************************************)
\* the kubelet reports a new state of "main"
KubeletUpdate ==
    \E s \in LoopStatuses : s # live.statuses /\ WatchUpdate(Pod(s, live.ecs))

\* somebody attaches a debug container
AttachDebugger ==
    /\ ~HasName(live.ecs, DebuggerName)
    /\ WatchUpdate(Pod(live.statuses, Append(live.ecs, Debugger)))

PodCreated == \E s \in LoopStatuses : WatchCreate(Pod(s, <<>>))

PodDeleted == WatchDelete

\* the same notification is delivered again
Redeliver ==
    /\ ev.kind # "None"
    /\ Notify(ev, queue)
    /\ UNCHANGED <<strategy, live, loopVars, okWrites>>

Init ==
    /\ strategy \in {"Delete", "InjectKill"}
    /\ live = NoPod
    /\ ev = NoEvent
    /\ passed = FALSE
    /\ fired = FALSE
    /\ triggered = FALSE
    /\ queue = FALSE
    /\ IdleLoop

Next ==
    \/ KubeletUpdate
    \/ AttachDebugger
    \/ PodCreated
    \/ PodDeleted
    \/ Redeliver
    \/ ReconcileGet
    \/ ReconcileDelete
    \/ InjectBuild
    \/ InjectSubmit

Spec == Init /\ [][Next]_vars

--------------------------------------------------------------------------------
\* The Delete build on its own, with the scheduling Reconcile relies on: a
\* worker takes every key that stays in the work queue (ReconcileGet), and a
\* call made on the client returns (ReconcileDelete). The platform fails at most
\* MaxFaults times, after which its calls succeed.

InitDelete == Init /\ strategy = "Delete"

NextDelete ==
    \/ KubeletUpdate
    \/ AttachDebugger
    \/ PodCreated
    \/ PodDeleted
    \/ Redeliver
    \/ ReconcileGet
    \/ ReconcileDelete

SpecDeleteFair ==
    InitDelete /\ [][NextDelete]_vars /\ WF_vars(ReconcileGet) /\ WF_vars(ReconcileDelete)

(***************************************************************************)
(* Properties                                                              *)
(***************************************************************************)
\* "main" has a status record with exactly this state in pod p
MainIs(p, state) ==
    \E i \in 1..Len(p.statuses) : p.statuses[i] = ContainerStatus("main", state)

MainTerminated(p) == \E r \in TerminatedReasons : MainIs(p, StTerminated(r))

\* C1: for every Update notification the filter passes exactly when "main" is
\* Running in the old snapshot and Terminated with reason "Completed" in the
\* new one.
C1_UpdatePassesIffCompletion ==
    ev.kind = "Update" =>
        (passed <=> (MainIs(ev.old, StRunning) /\ MainIs(ev.new, StTerminated("Completed"))))

C1_Witness ==
    /\ ev.kind = "Update"
    /\ passed
    /\ MainIs(ev.old, StRunning)
    /\ MainIs(ev.new, StTerminated("Completed"))

\* C2: a Create or Delete notification never passes the filter and never puts
\* the pod's key into the work queue, whatever the pod's containers show and
\* whatever Reconcile is doing.
C2_CreateDeleteNeverPass ==
    [][ev'.kind \in {"Create", "Delete"} =>
            /\ ~passed'
            /\ (UNCHANGED loopVars => (queue' => queue))]_vars

C2_Witness ==
    /\ ev.kind = "Delete"
    /\ strategy = "InjectKill"
    /\ pc = "built"
    /\ ~passed
    /\ ~queue

\* C3: over consecutive Update pairs of one pod, a pair whose old snapshot
\* shows "main" Terminated never passes, and once a pair has passed no later
\* pair passes until a snapshot with "main" Running has been delivered.
C3_FiresOncePerCompletion ==
    [][/\ (ev'.kind = "Update" /\ MainTerminated(ev'.old)) => ~passed'
       /\ passed' => ~fired]_vars

C3_Witness ==
    /\ fired
    /\ ev.kind = "Update"
    /\ MainIs(ev.old, StTerminated("Completed"))
    /\ MainIs(ev.new, StTerminated("Completed"))
    /\ ~passed

\* C4: a Delete-strategy Reconcile that finds the pod absent, at Get or at
\* Delete, returns success and is not re-queued.
C4_DeleteOfAbsentPodSucceeds ==
    (strategy = "Delete" /\ last.cause = "NotFound") =>
        (last.result = "ok" /\ ~last.requeued)

\* C5: an InjectKill Reconcile whose Patch finds the pod absent is not
\* re-queued.
C5_PatchNotFoundIsTerminal ==
    (strategy = "InjectKill" /\ last.step = "Patch" /\ last.cause = "NotFound") =>
        ~last.requeued

\* C6: after a serialization failure, a diff failure or a permission-denied
\* answer Reconcile is not re-queued.
C6_FatalFailuresNotRetried ==
    (last.step \in {"Marshal", "Diff"}
        \/ (last.step \in {"Delete", "Patch"} /\ last.cause = "Forbidden")) => ~last.requeued

RetryableErrors == {"Conflict", "Unavailable", "Canceled"}

\* C7: a Reconcile that meets a conflict, an unavailable platform or a
\* cancelled call returns the error and its key is back in the work queue;
\* the invocation that follows a re-queue starts with Get and works on the
\* pod as stored at that moment.
C7_RetryableRequeuedAndReread ==
    [][/\ (faults' # faults /\ last'.cause \in RetryableErrors) =>
            (last'.result = "err" /\ pc' = "idle" /\ queue')
       /\ (last.requeued /\ pc = "idle" /\ pc' # "idle") =>
            (pc' = "got" /\ pod' = live)]_vars

C7_Witness ==
    /\ last.requeued
    /\ last.cause \in RetryableErrors
    /\ last.step \in {"Delete", "Patch"}
    /\ pc = "got"
    /\ pod # NoPod

\* InjectSubmit returned success in this step
PatchSucceeds == pc = "built" /\ pc' = "idle" /\ last'.result = "ok"

IsHelper(e) ==
    /\ e.name = "essential-container-sidecar"
    /\ e.command = <<"/bin/sh">>
    /\ e.args = <<"-c", "kill -INT 1">>

\* C8 as claimed, for an injection whose stored list is still the list Get
\* read: after a successful injection the stored list is the list before it
\* with one helper entry appended, for every starting list.
C8_Original ==
    [][(PatchSucceeds /\ pod.ecs = live.ecs) =>
            /\ Len(live'.ecs) = Len(live.ecs) + 1
            /\ SubSeq(live'.ecs, 1, Len(live.ecs)) = live.ecs
            /\ IsHelper(live'.ecs[Len(live'.ecs)])]_vars

\* the entries of list other than the helper, in order
NotHelper(list) == SelectSeq(list, LAMBDA e : e.name # "essential-container-sidecar")

\* C8 amended: after a successful injection into a pod whose stored list has
\* no entry named essential-container-sidecar the list is one longer, the
\* earlier entries are unchanged and in the same order, and the one new entry
\* is the helper, last whenever the stored list is the list Get read; a
\* stored list that already has an entry of that name is left as it is.
C8_AppendsUnlessPresent ==
    [][PatchSucceeds =>
            IF HasName(live.ecs, "essential-container-sidecar")
            THEN live'.ecs = live.ecs
            ELSE /\ Len(live'.ecs) = Len(live.ecs) + 1
                 /\ NotHelper(live'.ecs) = live.ecs
                 /\ \E i \in 1..Len(live'.ecs) : IsHelper(live'.ecs[i])
                 /\ pod.ecs = live.ecs => IsHelper(live'.ecs[Len(live'.ecs)])]_vars

C8_Witness ==
    /\ last.step = "Patch"
    /\ last.result = "ok"
    /\ okWrites = 1
    /\ Len(live.ecs) = 2
    /\ live.ecs[1].name = "debugger"
    /\ IsHelper(live.ecs[2])

\* C9 as claimed: for every pod the patch applied to the list before gives
\* the list after, which is the list before with the helper appended.
C9_Original ==
    pc = "built" =>
        /\ copied.ecs = pod.ecs \o <<ec>>
        /\ ApplyPatch(patch, pod.ecs) = copied.ecs

\* C9 amended: the round trip holds for every pod whose list has no entry
\* named essential-container-sidecar; for a pod that has one, the patch
\* applied to the list before gives the list before.
C9_RoundTripUnlessPresent ==
    pc = "built" =>
        /\ Len(copied.ecs) = Len(pod.ecs) + 1
        /\ SubSeq(copied.ecs, 1, Len(pod.ecs)) = pod.ecs
        /\ IsHelper(copied.ecs[Len(copied.ecs)])
        /\ ApplyPatch(patch, pod.ecs) =
              IF HasName(pod.ecs, "essential-container-sidecar") THEN pod.ecs ELSE copied.ecs

C9_Witness ==
    /\ pc = "built"
    /\ Len(pod.ecs) = 1
    /\ pod.ecs[1].name = "debugger"
    /\ patch # NoPatch
    /\ ApplyPatch(patch, pod.ecs) = copied.ecs

\* C10: a passing pair delivered again passes again and enqueues the key; the
\* Reconcile that then runs against the pod as the first one left it returns
\* success and changes nothing: under Delete the pod is gone and Get's
\* NotFound is success, under InjectKill the patch merges into the helper
\* entry already there.
C10_RedeliveryHarmless ==
    [][/\ (passed /\ ev' = ev /\ UNCHANGED <<live, loopVars>>) => (passed' /\ queue')
       /\ (strategy = "Delete" /\ okWrites >= 1 /\ ~live.present /\ pc = "idle"
             /\ queue /\ ~queue' /\ faults' = faults /\ ev' = ev) =>
            (last'.result = "ok" /\ ~last'.requeued /\ live' = live)
       /\ (strategy = "InjectKill" /\ okWrites >= 1 /\ pc = "built" /\ pc' = "idle"
             /\ faults' = faults /\ live.present
             /\ HasName(live.ecs, "essential-container-sidecar")
             /\ HasName(pod.ecs, "essential-container-sidecar")) =>
            (last'.result = "ok" /\ ~last'.requeued /\ live' = live)]_vars

C10_Witness ==
    /\ strategy = "InjectKill"
    /\ okWrites = 2
    /\ passed
    /\ last.result = "ok"
    /\ last.step = "Patch"
    /\ Len(SelectSeq(live.ecs, LAMBDA e : e.name = "essential-container-sidecar")) = 1

\* C11: an Update notification in which "main" has no status record in the old
\* snapshot, in the new one, or in both never passes the filter, whatever the
\* other containers show.
C11_NoRecordNeverPasses ==
    (ev.kind = "Update"
        /\ (~HasName(ev.old.statuses, "main") \/ ~HasName(ev.new.statuses, "main")))
      => ~passed

C11_Witness ==
    /\ ev.kind = "Update"
    /\ ~HasName(ev.old.statuses, "main")
    /\ \E i \in 1..Len(ev.old.statuses) : ev.old.statuses[i].state = StRunning
    /\ MainIs(ev.new, StTerminated("Completed"))
    /\ ~passed

\* C12: Reconcile issues a write request (delete or ephemeral-container patch)
\* only after some Update notification for the pod has passed the filter; a
\* notification the filter rejects enqueues nothing and is followed by no
\* request of its own.
C12_RequestOnlyAfterTrigger ==
    [][/\ (requests' > requests) => triggered
       /\ (pc \in {"got", "built"}) => triggered
       /\ (~passed' /\ pc' = pc) => (requests' <= requests /\ (queue' => queue))]_vars

C12_Witness ==
    /\ triggered
    /\ ~passed
    /\ ev.kind = "Update"
    /\ ~queue
    /\ requests = 1
    /\ last.step \in {"Delete", "Patch"}

\* C13: under the Delete strategy, once the key is in the work queue the loop
\* eventually is idle with the pod absent, provided the worker keeps taking
\* queued keys and the platform's calls eventually stop failing. The way there
\* goes through Reconcile: a queued key is taken (Get answers NotFound and the
\* key leaves the queue, or the pod is read), and a Reconcile that has read the
\* pod ends, now or after its retries, with the pod gone.
C13_DeleteEventuallyAbsent ==
    /\ (strategy = "Delete" /\ queue) ~> (pc = "idle" /\ ~live.present)
    /\ (strategy = "Delete" /\ queue /\ pc = "idle")
         ~> (pc = "got" \/ (pc = "idle" /\ ~queue /\ ~live.present))
    /\ (strategy = "Delete" /\ pc = "got") ~> (pc = "idle" /\ ~live.present)

C13_Witness ==
    /\ strategy = "Delete"
    /\ triggered
    /\ faults = MaxFaults
    /\ last = [result |-> "ok", step |-> "Delete", cause |-> "none", requeued |-> FALSE]
    /\ pc = "idle"
    /\ ~live.present

C15_InputsUntouched ==
    [][/\ (ev' # ev /\ ev'.kind = "Update" /\ UNCHANGED loopVars) =>
            (ev'.old = live /\ ev'.new = live')
       /\ (pc \in {"got", "built"} /\ pc' \in {"got", "built"}) => pod' = pod
       /\ (pc = "got" /\ pc' = "built") =>
            /\ Len(copied'.ecs) = Len(pod.ecs) + 1
            /\ SubSeq(copied'.ecs, 1, Len(pod.ecs)) = pod'.ecs
            /\ copied'.statuses = pod'.statuses]_vars

C15_Witness ==
    /\ pc = "built"
    /\ ev.kind = "Update"
    /\ passed
    /\ ev.new = pod
    /\ pod = live
    /\ Len(pod.ecs) = 1
    /\ Len(copied.ecs) = 2

\* C16: whenever Reconcile issues a delete or a patch, the pod its Get read
\* shows "main" Terminated with reason "Completed".
C16_RequestOnlyWhenCompleted ==
    [][(requests' > requests) => MainIs(pod, StTerminated("Completed"))]_vars

\* C17: one Reconcile invocation issues at most one write request, and none
\* when its Get fails: NotFound ends the invocation with success and no
\* re-queue, any other Get error is returned.
C17_AtMostOneRequest ==
    /\ requests <= 1
    /\ pc = "got" => requests = 0
    /\ last.step = "Get" =>
          /\ requests = 0
          /\ last.cause = "NotFound" => (last.result = "ok" /\ ~last.requeued)
          /\ last.cause # "NotFound" => (last.result = "err" /\ last.cause \in GetErrors)

C17_Witness ==
    /\ triggered
    /\ pc = "idle"
    /\ live.present
    /\ last.step = "Get"
    /\ last.result = "err"
    /\ okWrites = 1
    /\ requests = 0

====
